---- MODULE Spec2Model ----
(***************************************************************************)
(* x_to_markdown.py: extraction of an X.com post/article into an ordered   *)
(* list of content items (extract_x_content) and its rendering as a        *)
(* markdown document (content_to_markdown).                                *)
(*                                                                         *)
(* Strings are sequences of characters; a character is a one-element       *)
(* string, except BULLET, which stands for U+2022.                         *)
(***************************************************************************)
EXTENDS Integers, Sequences, FiniteSets, TLC

BULLET == "U+2022"
NL == "\n"

(***************************************************************************)
(* String primitives of JavaScript and Python used by the program.         *)
(***************************************************************************)
IsWs(c) == c \in {" ", "\n", "\t"}

IsDigit(c) == c \in {"0", "1", "2", "3", "4", "5", "6", "7", "8", "9"}

Rep(c, n) == [i \in 1..n |-> c]

RECURSIVE FirstNonWs(_, _)
FirstNonWs(s, i) ==
  IF i > Len(s) THEN i
  ELSE IF IsWs(s[i]) THEN FirstNonWs(s, i + 1) ELSE i

RECURSIVE LastNonWs(_, _)
LastNonWs(s, i) ==
  IF i < 1 THEN i
  ELSE IF IsWs(s[i]) THEN LastNonWs(s, i - 1) ELSE i

\* String.prototype.trim / str.strip
Trim(s) == SubSeq(s, FirstNonWs(s, 1), LastNonWs(s, Len(s)))

StartsWithAt(s, pat, i) ==
  /\ i + Len(pat) - 1 <= Len(s)
  /\ \A k \in 1..Len(pat) : s[i + k - 1] = pat[k]

\* String.prototype.includes
Includes(s, pat) == \E i \in 1..(Len(s) + 1) : StartsWithAt(s, pat, i)

\* split on a one-character separator
Split(s, sep) ==
  LET cuts == { i \in 1..Len(s) : s[i] = sep }
      \* the k-th separator, with position 0 before the string and Len(s) + 1 after it
      cut(k) == IF k = 0 THEN 0
                ELSE IF k > Cardinality(cuts) THEN Len(s) + 1
                ELSE CHOOSE i \in cuts : Cardinality({ j \in cuts : j < i }) = k - 1
  IN  [ k \in 1..(Cardinality(cuts) + 1) |-> SubSeq(s, cut(k - 1) + 1, cut(k) - 1) ]

RECURSIVE Join(_, _)
\* sep.join(parts)
Join(parts, sep) ==
  IF parts = << >> THEN << >>
  ELSE IF Len(parts) = 1 THEN parts[1]
  ELSE parts[1] \o sep \o Join(Tail(parts), sep)

RECURSIVE ReplaceAll(_, _, _)
\* str.replace(pat, rep), every occurrence, left to right
ReplaceAll(s, pat, rep) ==
  IF s = << >> THEN << >>
  ELSE IF StartsWithAt(s, pat, 1)
       THEN rep \o ReplaceAll(SubSeq(s, Len(pat) + 1, Len(s)), pat, rep)
       ELSE << s[1] >> \o ReplaceAll(Tail(s), pat, rep)

NonEmpty(seq) == SelectSeq(seq, LAMBDA e : e # << >>)

RECURSIVE SumLen(_)
SumLen(seq) == IF seq = << >> THEN 0 ELSE Len(seq[1]) + SumLen(Tail(seq))

RECURSIVE SeqsUpTo(_, _)
\* every sequence over S of length at most n
SeqsUpTo(S, n) ==
  IF n = 0 THEN { << >> }
  ELSE LET shorter == SeqsUpTo(S, n - 1)
       IN  shorter \cup { Append(q, e) : q \in shorter, e \in S }

(***************************************************************************)
(* Program constants.                                                      *)
(***************************************************************************)
ScrollSteps == 5
FallbackThreshold == 400
MinDimension == 100
TitleMaxLen == 100

MediaDomain == << "p", "b", "s", ".", "t", "w", "i", "m", "g", ".", "c", "o", "m" >>
DefaultAlt == << "I", "m", "a", "g", "e" >>
SemanticTags == { "h1", "h2", "h3", "h4", "h5", "h6", "p", "li", "blockquote", "pre" }

(***************************************************************************)
(* Bounds of the model.                                                    *)
(***************************************************************************)
MaxNodes == 2

(***************************************************************************)
(* The DOM snapshot.  A document is the sequence of its element nodes in   *)
(* document (pre-)order; a container element is a range of that sequence,  *)
(* and its innerText is the text of the nodes in the range, one per line.  *)
(***************************************************************************)
Node(tag, text) ==
  [ tag |-> tag, innerText |-> text, ariaHidden |-> FALSE, role |-> "",
    children |-> 0, testid |-> "", src |-> << >>, alt |-> << >>,
    naturalWidth |-> 0, width |-> 0, naturalHeight |-> 0, height |-> 0 ]

Img(src, alt, nw, nh, w, h) ==
  [ Node("img", << >>) EXCEPT !.src = src, !.alt = alt, !.naturalWidth = nw,
    !.naturalHeight = nh, !.width = w, !.height = h ]

tA == << "a" >>
tB == << "b" >>
tC == << "c" >>
tD == << "d" >>
tPaddedB == << " ", "b", " " >>
tTwoBullets == << "-", " ", "a", NL, BULLET, " ", " ", "a", " " >>
tTweet == << "e", NL, "f" >>
tLong == Rep("x", FallbackThreshold - 1)
tLongTweet == Rep("y", TitleMaxLen + 1)

UrlScheme == << "h", "t", "t", "p", "s", ":", "/", "/" >>
srcMedia1 == UrlScheme \o MediaDomain \o << "/", "1" >>
srcMedia2 == UrlScheme \o MediaDomain \o << "/", "2" >>
srcOtherHost == UrlScheme \o << "e", ".", "i", "o", "/" >> \o MediaDomain
srcUnrelated == UrlScheme \o << "a", "b", "s", ".", "t", "w", "/", "3" >>

TextPool ==
  { Node("p", tA),
    Node("h5", tPaddedB),
    Node("h2", tB),
    Node("blockquote", tTwoBullets),
    Node("div", tLong),
    [ Node("span", tC) EXCEPT !.children = 1 ],
    [ Node("p", tD) EXCEPT !.role = "button" ],
    [ Node("li", tC) EXCEPT !.ariaHidden = TRUE ],
    [ Node("div", tTweet) EXCEPT !.children = 1, !.testid = "tweetText" ],
    Img(srcMedia1, << >>, 200, 200, 50, 50) }

ImgPool ==
  { Img(srcMedia1, << >>, 200, 200, 50, 50),
    Img(srcMedia1, tA, 100, 200, 300, 300),
    Img(srcMedia2, tA, 0, 0, 150, 101),
    Img(srcOtherHost, tA, 200, 200, 200, 200),
    Img(srcUnrelated, tA, 200, 200, 200, 200),
    Img(<< >>, tA, 200, 200, 200, 200) }

AllTags == SemanticTags \cup { "div", "span", "a", "ul", "section", "img" }

TagPool == { Node(t, tB) : t \in AllTags }

Docs == SeqsUpTo(TextPool, MaxNodes) \cup SeqsUpTo(ImgPool, MaxNodes)
          \cup { << n >> : n \in TagPool }

Body(doc) == [ kind |-> "body", lo |-> 1, hi |-> Len(doc) ]

Element(lo, hi) == [ kind |-> "element", lo |-> lo, hi |-> hi ]

Ranges(doc) ==
  UNION { { Element(lo, hi) : hi \in lo..Len(doc) } : lo \in 1..Len(doc) }

\* an optional value is a sequence of at most one element
None == << >>
Some(v) == << v >>
Opt(S) == { None } \cup { Some(v) : v \in S }

NoCandidates == [ q \in 1..5 |-> None ]

NoMeta == [ author |-> None, time |-> None, stats |-> << >> ]

tName == << "J" >>
tHandle == << "@", "j" >>
tDatetime == << "2", "0", "2", "4" >>
tAgo == << "1", "h" >>
kLike == << "l", "i", "k", "e", "-", "c", "o", "u", "n", "t" >>
kReply == << "c", "o", "u", "n", "t" >>
tFive == << "5" >>
tSeven == << "7" >>

AuthorElements ==
  Opt([ nameEl : Opt({ tName, << >> }), handleEl : Opt({ tHandle }) ])

TimeElements ==
  Opt([ datetime : Opt({ tDatetime, << >> }), innerText : { tAgo } ])

StatsElements ==
  { << >>,
    << [ testId |-> kLike, text |-> tFive ] >>,
    << [ testId |-> kLike, text |-> tFive ], [ testId |-> kReply, text |-> tSeven ],
       [ testId |-> kLike, text |-> tSeven ] >> }

Metas == [ author : AuthorElements, time : TimeElements, stats : StatsElements ]

Page(doc, cands, meta) == [ doc |-> doc, cands |-> cands, meta |-> meta ]

\* documents whose nodes all sit directly under the body, or under a main
\* region that also holds an article-body region around the first node
DocPages ==
  { Page(d, NoCandidates, NoMeta) : d \in Docs } \cup
  { Page(d, [ NoCandidates EXCEPT ![1] = Some(Element(1, 1)),
                                  ![5] = Some(Element(1, Len(d))) ], NoMeta) :
      d \in Docs \ { << >> } }

LayoutDocs ==
  { << Node("p", tA), Node("p", tA) >>,
    << Node("p", tA), Node("blockquote", tTwoBullets) >>,
    << Img(srcMedia1, << >>, 200, 200, 50, 50), Img(srcMedia2, tA, 0, 0, 150, 101) >>,
    << Node("p", tA), Img(srcMedia1, << >>, 200, 200, 50, 50) >> }

\* every answer the five container queries can give on a document
LayoutPages ==
  UNION { { Page(d, c, NoMeta) : c \in [ 1..5 -> Opt(Ranges(d)) ] } : d \in LayoutDocs }

MetaDocs ==
  { << >>,
    << Node("h2", tPaddedB) >>,
    << Node("h1", << " " >>), Node("h2", tB) >>,
    << [ Node("div", tTweet) EXCEPT !.children = 1, !.testid = "tweetText" ] >>,
    << [ Node("div", tLongTweet) EXCEPT !.testid = "tweetText" ] >> }

MetaPages == { Page(d, NoCandidates, m) : d \in MetaDocs, m \in Metas }

Pages == DocPages \cup LayoutPages \cup MetaPages

NoPage == Page(<< >>, NoCandidates, NoMeta)

(***************************************************************************)
(* page.evaluate: the extraction function run inside the page.             *)
(***************************************************************************)
ElementNodes(doc, el) == [ k \in 1..(el.hi - el.lo + 1) |-> doc[el.lo + k - 1] ]

InnerText(doc, el) ==
  LET texts == [ k \in 1..(el.hi - el.lo + 1) |-> doc[el.lo + k - 1].innerText ]
  IN  Join(NonEmpty(texts), << NL >>)

EmptyResult ==
  [ title |-> << >>, author |-> << >>, handle |-> << >>, timestamp |-> << >>,
    stats |-> << >>, content |-> << >> ]

\* result.stats[testId] = text: a new key is appended, a known key keeps its place
SetStat(stats, key, value) ==
  IF \E i \in 1..Len(stats) : stats[i].key = key
  THEN [ i \in 1..Len(stats) |->
           IF stats[i].key = key THEN [ key |-> key, value |-> value ] ELSE stats[i] ]
  ELSE Append(stats, [ key |-> key, value |-> value ])

RECURSIVE ExtractStats(_, _)
ExtractStats(els, stats) ==
  IF els = << >> THEN stats
  ELSE ExtractStats(Tail(els),
         IF els[1].testId # << >> THEN SetStat(stats, els[1].testId, els[1].text)
         ELSE stats)

ExtractMeta(meta) ==
  LET a == meta.author
      t == meta.time
  IN  [ EmptyResult EXCEPT
          !.author = IF a # None /\ a[1].nameEl # None THEN a[1].nameEl[1] ELSE << >>,
          !.handle = IF a # None /\ a[1].handleEl # None THEN a[1].handleEl[1] ELSE << >>,
          !.timestamp = IF t = None THEN << >>
                        ELSE IF t[1].datetime # None /\ t[1].datetime[1] # << >>
                             THEN t[1].datetime[1]
                             ELSE t[1].innerText,
          !.stats = ExtractStats(meta.stats, << >>) ]

\* candidates = [five queries].filter(Boolean)
Candidates(page) ==
  LET c == page.cands IN c[1] \o c[2] \o c[3] \o c[4] \o c[5]

RECURSIVE SelectLoopLastMax(_, _, _, _)
\* SelectLoop with "len >= maxLen": a later candidate of equal length wins
SelectLoopLastMax(doc, cands, container, maxLen) ==
  IF cands = << >> THEN container
  ELSE LET len == Len(InnerText(doc, cands[1]))
       IN  IF len >= maxLen
           THEN SelectLoopLastMax(doc, Tail(cands), cands[1], len)
           ELSE SelectLoopLastMax(doc, Tail(cands), container, maxLen)

RECURSIVE SelectLoop(_, _, _, _)
SelectLoop(doc, cands, container, maxLen) ==
  IF cands = << >> THEN container
  ELSE LET len == Len(InnerText(doc, cands[1]))
       IN  IF len > maxLen
           THEN SelectLoop(doc, Tail(cands), cands[1], len)
           ELSE SelectLoop(doc, Tail(cands), container, maxLen)

SelectContainer(page) ==
  LET cands == Candidates(page)
  IN  SelectLoop(page.doc, cands,
                 IF cands # << >> THEN cands[1] ELSE Body(page.doc), 0)

IsSkippable(el) == el.ariaHidden \/ el.role = "button"

\* el.naturalWidth || el.width || 0
EffectiveDim(natural, rendered) == IF natural # 0 THEN natural ELSE rendered

ImageAccepted(el, seen) ==
  /\ el.src # << >>
  /\ Includes(el.src, MediaDomain)
  /\ el.src \notin seen
  /\ EffectiveDim(el.naturalWidth, el.width) > MinDimension
  /\ EffectiveDim(el.naturalHeight, el.height) > MinDimension

ImageItem(el) ==
  [ type |-> "image", src |-> el.src,
    alt |-> IF el.alt # << >> THEN el.alt ELSE DefaultAlt ]

TextItem(tag, text) == [ type |-> "text", tag |-> tag, content |-> text ]

\* EmittedTag with heading levels 5-6 collapsed to 4 and blockquote/pre to p
EmittedTagCollapsed(el) ==
  IF el.tag \in { "h5", "h6" } THEN Some("h4")
  ELSE IF el.tag \in { "blockquote", "pre" } THEN Some("p")
  ELSE IF el.tag \in SemanticTags THEN Some(el.tag)
  ELSE IF el.tag \in { "div", "span" } /\ el.children = 0 THEN Some("p")
  ELSE None

\* the tag a structured node is emitted with, None when it emits no text
EmittedTag(el) ==
  IF el.tag \in SemanticTags THEN Some(el.tag)
  ELSE IF el.tag \in { "div", "span" } /\ el.children = 0 THEN Some("p")
  ELSE None

\* one iteration of the walk: the state is [content, seenTexts, seenImages]
VisitNode(el, st) ==
  IF IsSkippable(el) THEN st
  ELSE IF el.tag = "img"
  THEN IF ImageAccepted(el, st.seenImages)
       THEN [ st EXCEPT !.seenImages = @ \cup { el.src },
                        !.content = Append(@, ImageItem(el)) ]
       ELSE st
  ELSE LET tag == EmittedTag(el)
           text == Trim(el.innerText)
       IN  IF tag # None /\ text # << >> /\ text \notin st.seenTexts
           THEN [ st EXCEPT !.seenTexts = @ \cup { text },
                            !.content = Append(@, TextItem(tag[1], text)) ]
           ELSE st

TextItems(content) == SelectSeq(content, LAMBDA item : item.type = "text")

TotalTextLen(content) ==
  LET texts == TextItems(content)
  IN  SumLen([ i \in 1..Len(texts) |-> texts[i].content ])

\* FallbackNeeded with "totalTextLen <= 400"
FallbackNeededInclusive(content) == TotalTextLen(content) <= FallbackThreshold

FallbackNeeded(content) == TotalTextLen(content) < FallbackThreshold

\* querySelector over both article-body selectors: the first match in document order
ArticleBody(page) ==
  LET a == page.cands[1]
      b == page.cands[2]
  IN  IF a = None THEN b
      ELSE IF b = None THEN a
      ELSE IF b[1].lo < a[1].lo \/ (b[1].lo = a[1].lo /\ b[1].hi > a[1].hi) THEN b
      ELSE a

FallbackLines(page, container) ==
  LET ab == ArticleBody(page)
      el == IF ab # None THEN ab[1] ELSE container
      raw == InnerText(page.doc, el)
      parts == Split(raw, NL)
  IN  NonEmpty([ i \in 1..Len(parts) |-> Trim(parts[i]) ])

\* /^[-BULLET]\s+/
HasMarker(line) ==
  /\ Len(line) >= 2
  /\ line[1] \in { "-", BULLET }
  /\ IsWs(line[2])

StripMarker(line) == SubSeq(line, FirstNonWs(line, 2), Len(line))

FallbackItem(line) ==
  IF HasMarker(line) THEN TextItem("li", StripMarker(line)) ELSE TextItem("p", line)

\* the key the fallback pass records in seenTexts for a line
FallbackSeenKey(line) == line

AddLine(line, st) ==
  IF line \in st.seenTexts THEN st
  ELSE [ st EXCEPT !.seenTexts = @ \cup { FallbackSeenKey(line) },
                   !.content = Append(@, FallbackItem(line)) ]

DeriveTitle(doc, container) ==
  LET nodes == ElementNodes(doc, container)
      heads == { i \in 1..Len(nodes) : nodes[i].tag \in { "h1", "h2" } }
      tweets == { i \in 1..Len(nodes) : nodes[i].testid = "tweetText" }
      first(S) == CHOOSE i \in S : \A j \in S : i <= j
  IN  IF heads # { } THEN Trim(nodes[first(heads)].innerText)
      ELSE IF tweets # { }
           THEN LET line == Split(Trim(nodes[first(tweets)].innerText), NL)[1]
                IN  SubSeq(line, 1, IF Len(line) < TitleMaxLen THEN Len(line) ELSE TitleMaxLen)
           ELSE << >>

(***************************************************************************)
(* extract_x_content: the state of one run.                                *)
(***************************************************************************)
VARIABLES
  pc,          \* position in extract_x_content
  scrolls,     \* iterations of the scroll loop done
  dom,         \* the snapshot page.evaluate runs on
  container,   \* the chosen content container
  walkPos,     \* position of the tree walker in the document
  result,      \* the result object built inside the page
  seenTexts,
  seenImages,
  lines,       \* lines the fallback pass has still to look at
  returned,    \* "no" while running, then "result", "none" or "raised"
  gotoCalls,   \* history: how often each page.goto was called
  gotoTimeouts,\* history: the page.goto calls that timed out
  structured,  \* history: result.content when the structured walk ended
  fallbackRan, \* history: whether the fallback pass was entered
  failedCall   \* history: the call whose exception reached the outer except clauses

extractVars ==
  << pc, scrolls, dom, container, walkPos, result, seenTexts, seenImages, lines,
     returned, gotoCalls, gotoTimeouts, structured, fallbackRan, failedCall >>

VARIABLES
  rpc,                \* position in content_to_markdown
  data,               \* the extraction result rendered
  url,                \* the source URL
  md_lines,
  current_list_type,  \* TRUE for 'ul', FALSE for None
  itemIdx,            \* the next item of data.content
  document,           \* the returned string
  textLine,           \* history: per item, the line of the joined md_lines with its text
  lastTextTag         \* history: the tag of the text item rendered last

renderVars ==
  << rpc, data, url, md_lines, current_list_type, itemIdx, document, textLine,
     lastTextTag >>

vars == << extractVars, renderVars >>

Outcomes == { "ok", "timeout", "error" }

jsVars == << dom, container, walkPos, result, seenTexts, seenImages, lines,
             structured, fallbackRan >>

Init ==
  /\ pc = "goto1"
  /\ scrolls = 0
  /\ dom = NoPage
  /\ container = Body(<< >>)
  /\ walkPos = 1
  /\ result = EmptyResult
  /\ seenTexts = { }
  /\ seenImages = { }
  /\ lines = << >>
  /\ returned = "no"
  /\ gotoCalls = [ g \in { "goto1", "goto2" } |-> 0 ]
  /\ gotoTimeouts = { }
  /\ structured = << >>
  /\ fallbackRan = FALSE
  /\ failedCall = ""

\* an exception outside the inner try blocks reaches the except clauses at the end
Raise == pc' = "except" /\ failedCall' = pc

NoRaise == UNCHANGED failedCall

\* page.goto(url, wait_until='networkidle', timeout=30000)
Goto1 ==
  /\ pc = "goto1"
  /\ gotoCalls' = [ gotoCalls EXCEPT !["goto1"] = @ + 1 ]
  /\ \E o \in Outcomes :
       /\ gotoTimeouts' = IF o = "timeout" THEN gotoTimeouts \cup { "goto1" } ELSE gotoTimeouts
       /\ IF o = "ok" THEN pc' = "wait1" /\ NoRaise ELSE Raise
  /\ UNCHANGED << scrolls, returned >>
  /\ UNCHANGED jsVars
  /\ UNCHANGED renderVars

\* page.wait_for_timeout(2000)
Wait1 ==
  /\ pc = "wait1"
  /\ \E o \in Outcomes : IF o = "ok" THEN pc' = "expand1" /\ NoRaise ELSE Raise
  /\ UNCHANGED << scrolls, returned, gotoCalls, gotoTimeouts >>
  /\ UNCHANGED jsVars
  /\ UNCHANGED renderVars

\* the three "show more" expansions: try: evaluate; wait  except Exception: pass
Expand ==
  /\ pc \in { "expand1", "expand2", "expand3" }
  /\ \E o \in Outcomes :
       pc' = CASE pc = "expand1" -> "href"
               [] pc = "expand2" -> "scroll"
               [] pc = "expand3" -> "evaluate"
  /\ UNCHANGED << scrolls, returned, gotoCalls, gotoTimeouts >>
  /\ UNCHANGED jsVars
  /\ UNCHANGED renderVars
  /\ NoRaise

\* article_href = page.evaluate(...): the link, if any, and whether it is the
\* page already shown; a failure is swallowed by the bare except
ArticleHref ==
  /\ pc = "href"
  /\ \E o \in Outcomes, href \in { "", "same", "other" } :
       pc' = IF o = "ok" /\ href = "other" THEN "goto2" ELSE "expand2"
  /\ UNCHANGED << scrolls, returned, gotoCalls, gotoTimeouts >>
  /\ UNCHANGED jsVars
  /\ UNCHANGED renderVars
  /\ NoRaise

\* Goto2 without the surrounding try/except: a failed navigation reaches the
\* outer except clauses
Goto2Propagating ==
  /\ pc = "goto2"
  /\ gotoCalls' = [ gotoCalls EXCEPT !["goto2"] = @ + 1 ]
  /\ \E o \in Outcomes :
       /\ gotoTimeouts' = IF o = "timeout" THEN gotoTimeouts \cup { "goto2" } ELSE gotoTimeouts
       /\ IF o = "ok" THEN pc' = "expand2" /\ NoRaise ELSE Raise
  /\ UNCHANGED << scrolls, returned >>
  /\ UNCHANGED jsVars
  /\ UNCHANGED renderVars

\* page.goto(article_href, ...); page.wait_for_timeout(2000), inside try/except:
Goto2 ==
  /\ pc = "goto2"
  /\ gotoCalls' = [ gotoCalls EXCEPT !["goto2"] = @ + 1 ]
  /\ \E o \in Outcomes :
       gotoTimeouts' = IF o = "timeout" THEN gotoTimeouts \cup { "goto2" } ELSE gotoTimeouts
  /\ pc' = "expand2"
  /\ UNCHANGED << scrolls, returned >>
  /\ UNCHANGED jsVars
  /\ UNCHANGED renderVars
  /\ NoRaise

\* for _ in range(5): page.evaluate('window.scrollBy(0, 800)'); page.wait_for_timeout(500)
Scroll ==
  /\ pc = "scroll"
  /\ IF scrolls < ScrollSteps
     THEN \E o \in Outcomes :
            IF o = "ok" THEN scrolls' = scrolls + 1 /\ pc' = pc /\ NoRaise
            ELSE scrolls' = scrolls /\ Raise
     ELSE scrolls' = scrolls /\ pc' = "scrollTo" /\ NoRaise
  /\ UNCHANGED << returned, gotoCalls, gotoTimeouts >>
  /\ UNCHANGED jsVars
  /\ UNCHANGED renderVars

\* page.evaluate('window.scrollTo(0, document.body.scrollHeight)'); page.wait_for_timeout(1000)
ScrollTo ==
  /\ pc = "scrollTo"
  /\ \E o \in Outcomes : IF o = "ok" THEN pc' = "expand3" /\ NoRaise ELSE Raise
  /\ UNCHANGED << scrolls, returned, gotoCalls, gotoTimeouts >>
  /\ UNCHANGED jsVars
  /\ UNCHANGED renderVars

\* content_data = page.evaluate(...): metadata, container selection, walker set-up
EvaluateBegin ==
  /\ pc = "evaluate"
  /\ \E o \in Outcomes :
       IF o = "ok"
       THEN \E page \in Pages :
              /\ dom' = page
              /\ result' = ExtractMeta(page.meta)
              /\ container' = SelectContainer(page)
              /\ walkPos' = SelectContainer(page).lo
              /\ pc' = "walk"
              /\ NoRaise
       ELSE Raise /\ UNCHANGED << dom, result, container, walkPos >>
  /\ seenTexts' = { }
  /\ seenImages' = { }
  /\ UNCHANGED << scrolls, returned, gotoCalls, gotoTimeouts, lines, structured, fallbackRan >>
  /\ UNCHANGED renderVars

\* while (walker.nextNode()) { ... }, one node per step
Walk ==
  /\ pc = "walk"
  /\ IF walkPos <= container.hi
     THEN LET st == VisitNode(dom.doc[walkPos],
                      [ content |-> result.content, seenTexts |-> seenTexts,
                        seenImages |-> seenImages ])
          IN  /\ result' = [ result EXCEPT !.content = st.content ]
              /\ seenTexts' = st.seenTexts
              /\ seenImages' = st.seenImages
              /\ walkPos' = walkPos + 1
              /\ UNCHANGED << pc, structured >>
     ELSE /\ pc' = "fallback"
          /\ structured' = result.content
          /\ UNCHANGED << result, seenTexts, seenImages, walkPos >>
  /\ UNCHANGED << scrolls, returned, gotoCalls, gotoTimeouts, dom, container, lines,
                  fallbackRan >>
  /\ UNCHANGED renderVars
  /\ NoRaise

\* if (totalTextLen < 400) { ... lines = raw.split('\n').map(trim).filter(Boolean)
FallbackBegin ==
  /\ pc = "fallback"
  /\ IF FallbackNeeded(result.content)
     THEN /\ lines' = FallbackLines(dom, container)
          /\ fallbackRan' = TRUE
          /\ pc' = "lines"
     ELSE /\ pc' = "title"
          /\ UNCHANGED << lines, fallbackRan >>
  /\ UNCHANGED << scrolls, returned, gotoCalls, gotoTimeouts, dom, container, walkPos,
                  result, seenTexts, seenImages, structured >>
  /\ UNCHANGED renderVars
  /\ NoRaise

\* lines.forEach(line => { ... })
FallbackLine ==
  /\ pc = "lines"
  /\ IF lines # << >>
     THEN LET st == AddLine(lines[1],
                      [ content |-> result.content, seenTexts |-> seenTexts,
                        seenImages |-> seenImages ])
          IN  /\ result' = [ result EXCEPT !.content = st.content ]
              /\ seenTexts' = st.seenTexts
              /\ lines' = Tail(lines)
              /\ pc' = pc
     ELSE /\ pc' = "title"
          /\ UNCHANGED << result, seenTexts, lines >>
  /\ UNCHANGED << scrolls, returned, gotoCalls, gotoTimeouts, dom, container, walkPos,
                  seenImages, structured, fallbackRan >>
  /\ UNCHANGED renderVars
  /\ NoRaise

\* title derivation and return result: page.evaluate hands content_data to Python
EvaluateEnd ==
  /\ pc = "title"
  /\ result' = [ result EXCEPT !.title = DeriveTitle(dom.doc, container) ]
  /\ pc' = "close"
  /\ UNCHANGED << scrolls, returned, gotoCalls, gotoTimeouts, dom, container, walkPos,
                  seenTexts, seenImages, lines, structured, fallbackRan >>
  /\ UNCHANGED renderVars
  /\ NoRaise

\* browser.close(); return content_data
CloseAndReturn ==
  /\ pc = "close"
  /\ \E o \in Outcomes :
       IF o = "ok" THEN pc' = "done" /\ returned' = "result" /\ NoRaise
       ELSE Raise /\ returned' = returned
  /\ UNCHANGED << scrolls, gotoCalls, gotoTimeouts >>
  /\ UNCHANGED jsVars
  /\ UNCHANGED renderVars

\* except PlaywrightTimeout / except Exception: print; browser.close(); return None
Except ==
  /\ pc = "except"
  /\ \E o \in Outcomes : returned' = IF o = "ok" THEN "none" ELSE "raised"
  /\ pc' = "done"
  /\ UNCHANGED << scrolls, gotoCalls, gotoTimeouts >>
  /\ UNCHANGED jsVars
  /\ UNCHANGED renderVars
  /\ NoRaise

(***************************************************************************)
(* content_to_markdown(data, url).                                         *)
(***************************************************************************)
Placeholder == << "X", " ", "A", "r", "t", "i", "c", "l", "e" >>
StatusPrefix == << "/", "s", "t", "a", "t", "u", "s", "/" >>
TestIdPrefix == << "d", "a", "t", "a", "-", "t", "e", "s", "t", "i", "d", "=", "\"" >>
LowerCase == << "a", "b", "c", "d", "e", "f", "g", "h", "i", "j", "k", "l", "m", "n", "o", "p", "q", "r", "s", "t", "u", "v", "w", "x", "y", "z" >>
UpperCase == << "A", "B", "C", "D", "E", "F", "G", "H", "I", "J", "K", "L", "M", "N", "O", "P", "Q", "R", "S", "T", "U", "V", "W", "X", "Y", "Z" >>

IsLower(c) == \E i \in 1..Len(LowerCase) : LowerCase[i] = c
IsUpper(c) == \E i \in 1..Len(UpperCase) : UpperCase[i] = c
IsCased(c) == IsLower(c) \/ IsUpper(c)
ToUpper(c) == IF IsLower(c) THEN UpperCase[CHOOSE i \in 1..Len(LowerCase) : LowerCase[i] = c] ELSE c
ToLower(c) == IF IsUpper(c) THEN LowerCase[CHOOSE i \in 1..Len(UpperCase) : UpperCase[i] = c] ELSE c

\* str.title(): a cased character is upper-cased after an uncased one, else lower-cased
TitleCase(s) ==
  [ i \in 1..Len(s) |->
      IF i > 1 /\ IsCased(s[i - 1]) THEN ToLower(s[i]) ELSE ToUpper(s[i]) ]

RECURSIVE DigitsEnd(_, _)
DigitsEnd(s, i) == IF i <= Len(s) /\ IsDigit(s[i]) THEN DigitsEnd(s, i + 1) ELSE i - 1

\* re.search(r'/status/(\d+)', url): the captured digits, None without a match
StatusId(u) ==
  LET hits == { i \in 1..Len(u) :
                  /\ StartsWithAt(u, StatusPrefix, i)
                  /\ i + Len(StatusPrefix) <= Len(u)
                  /\ IsDigit(u[i + Len(StatusPrefix)]) }
  IN  IF hits = { } THEN None
      ELSE LET i == CHOOSE h \in hits : \A g \in hits : h <= g
               from == i + Len(StatusPrefix)
           IN  Some(SubSeq(u, from, DigitsEnd(u, from)))

\* title = data.get('title', 'X Article').strip(), then the URL fallback
RenderedTitle(d, u) ==
  LET title == Trim(d.title)
      id == StatusId(u)
  IN  IF title = << >> \/ title = Placeholder
      THEN IF id # None THEN Placeholder \o << " " >> \o id[1] ELSE title
      ELSE title

TitleEntry(d, u) == << "#", " " >> \o RenderedTitle(d, u) \o << NL >>

\* AuthorShown with "if author:"
AuthorShownIfNamed(d) == d.author # << >>

AuthorShown(d) == d.author # << >> \/ d.handle # << >>

AuthorEntry(d) ==
  << "*", "*", "A", "u", "t", "h", "o", "r", ":", "*", "*", " " >> \o d.author
    \o (IF d.handle # << >> THEN << " ", "(" >> \o d.handle \o << ")" >> ELSE << >>)

DateEntry(d) == << "*", "*", "D", "a", "t", "e", ":", "*", "*", " " >> \o d.timestamp

SourceEntry(u) == << "*", "*", "S", "o", "u", "r", "c", "e", ":", "*", "*", " ", "[" >> \o u \o << "]", "(" >> \o u \o << ")" >>

StatLabel(key) ==
  TitleCase(ReplaceAll(ReplaceAll(ReplaceAll(key, TestIdPrefix, << >>),
                                  << "\"" >>, << >>), << "-" >>, << " " >>))

StatsEntry(stats) ==
  << "*", "*", "S", "t", "a", "t", "s", ":", "*", "*", " " >> \o
    Join([ i \in 1..Len(stats) |-> stats[i].value \o << " " >> \o StatLabel(stats[i].key) ],
         << " ", "|", " " >>)

RuleEntry == << NL, "-", "-", "-", NL >>

\* MetaEntries with the source line nested under "if timestamp:"
MetaEntriesSourceUnderDate(d, u) ==
  (IF AuthorShown(d) THEN << AuthorEntry(d) >> ELSE << >>)
    \o (IF d.timestamp # << >> THEN << DateEntry(d), SourceEntry(u) >> ELSE << >>)
    \o (IF d.stats # << >> THEN << StatsEntry(d.stats) >> ELSE << >>)

\* the metadata lines appended between the title and the rule
MetaEntries(d, u) ==
  (IF AuthorShown(d) THEN << AuthorEntry(d) >> ELSE << >>)
    \o (IF d.timestamp # << >> THEN << DateEntry(d) >> ELSE << >>)
    \o << SourceEntry(u) >>
    \o (IF d.stats # << >> THEN << StatsEntry(d.stats) >> ELSE << >>)

HeadingPrefix(tag) ==
  CASE tag = "h1" -> << "#", " " >>
    [] tag = "h2" -> << "#", "#", " " >>
    [] tag = "h3" -> << "#", "#", "#", " " >>
    [] tag = "h4" -> << "#", "#", "#", "#", " " >>
    [] OTHER -> << >>

\* the entry a text item with non-empty text appends
TextEntry(tag, text) ==
  IF tag = "li" THEN << "-", " " >> \o text
  ELSE << NL >> \o HeadingPrefix(tag) \o text \o << NL >>

ImageEntry(item) ==
  << NL >> \o << "!", "[" >> \o item.alt \o << "]", "(" >> \o item.src \o << ")" >> \o << NL >>

\* ClosesList that never ends a list
ClosesListNever(listOpen, tag) == FALSE

\* if current_list_type and tag not in ['li']
ClosesList(listOpen, tag) == listOpen /\ tag # "li"

\* one iteration of the loop over content_items: the state is [md_lines, list]
RenderItem(item, st) ==
  IF item.type = "text"
  THEN LET text == Trim(item.content)
       IN  IF text = << >> THEN st
           ELSE LET closed == IF ClosesList(st.list, item.tag)
                              THEN [ md_lines |-> Append(st.md_lines, << >>), list |-> FALSE ]
                              ELSE st
                IN  [ md_lines |-> Append(closed.md_lines, TextEntry(item.tag, text)),
                      list |-> IF item.tag = "li" THEN TRUE ELSE closed.list ]
  ELSE IF item.type = "image" /\ item.src # << >>
       THEN [ st EXCEPT !.md_lines = Append(@, ImageEntry(item)) ]
       ELSE st

(***************************************************************************)
(* Inputs of content_to_markdown: results of the shape the extractor       *)
(* returns, and source URLs.                                               *)
(***************************************************************************)
MaxItems == 3

tTitle == << "T" >>
urlStatus == << "x", ".", "c", "o", "m", "/", "u", "/", "s", "t", "a", "t", "u", "s", "/", "4", "2" >>
urlProfile == << "x", ".", "c", "o", "m", "/", "u" >>
urlNoDigits == << "x", ".", "c", "o", "m", "/", "s", "t", "a", "t", "u", "s", "/" >>
urlMixed == << "x", ".", "c", "o", "m", "/", "s", "t", "a", "t", "u", "s", "/", "a", "/", "s", "t", "a", "t", "u", "s", "/", "7", "b" >>
Urls == { urlStatus, urlProfile, urlNoDigits, urlMixed }

StatsValues ==
  { << >>,
    << [ key |-> kLike, value |-> tFive ] >>,
    << [ key |-> kLike, value |-> tFive ], [ key |-> kReply, value |-> tSeven ] >> }

ItemPool ==
  { TextItem("li", tA), TextItem("li", tB), TextItem("p", tC), TextItem("h2", tD),
    TextItem("h5", tB), TextItem("blockquote", tA),
    ImageItem(Img(srcMedia1, << >>, 200, 200, 50, 50)) }

TagItems == { << TextItem(t, tB) >> : t \in SemanticTags }

Contents == SeqsUpTo(ItemPool, MaxItems) \cup TagItems

HeaderResults ==
  [ title : { << >>, Placeholder, tTitle }, author : { << >>, tName },
    handle : { << >>, tHandle }, timestamp : { << >>, tDatetime },
    stats : StatsValues, content : { << >> } ]

ContentResults ==
  [ title : { tTitle }, author : { tName }, handle : { << >> }, timestamp : { << >> },
    stats : { << >> }, content : Contents ]

RenderInputs ==
  (HeaderResults \X Urls) \cup (ContentResults \X { urlStatus })

RenderStart(d, u) ==
  /\ rpc = "title"
  /\ data = d
  /\ url = u
  /\ md_lines = << >>
  /\ current_list_type = FALSE
  /\ itemIdx = 1
  /\ document = << >>
  /\ textLine = << >>
  /\ lastTextTag = "none"

\* title = ...; md_lines.append(f"# {title}\n")
RenderTitle ==
  /\ rpc = "title"
  /\ md_lines' = Append(md_lines, TitleEntry(data, url))
  /\ rpc' = "meta"
  /\ UNCHANGED << data, url, current_list_type, itemIdx, document, textLine, lastTextTag >>
  /\ UNCHANGED extractVars

\* the metadata lines and md_lines.append("\n---\n")
RenderMeta ==
  /\ rpc = "meta"
  /\ md_lines' = md_lines \o MetaEntries(data, url) \o << RuleEntry >>
  /\ rpc' = "items"
  /\ UNCHANGED << data, url, current_list_type, itemIdx, document, textLine, lastTextTag >>
  /\ UNCHANGED extractVars

LineCount(entries) == Len(Split(Join(entries, << NL >>), NL))

\* for item in content_items: ...
RenderContent ==
  /\ rpc = "items"
  /\ IF itemIdx <= Len(data.content)
     THEN LET item == data.content[itemIdx]
              st == RenderItem(item, [ md_lines |-> md_lines, list |-> current_list_type ])
              rendered == item.type = "text" /\ st.md_lines # md_lines
          IN  /\ md_lines' = st.md_lines
              /\ current_list_type' = st.list
              /\ itemIdx' = itemIdx + 1
              /\ textLine' = Append(textLine,
                    IF ~rendered THEN 0
                    ELSE LineCount(SubSeq(st.md_lines, 1, Len(st.md_lines) - 1))
                           + (IF item.tag = "li" THEN 1 ELSE 2))
              /\ lastTextTag' = IF rendered THEN item.tag ELSE lastTextTag
              /\ rpc' = rpc
     ELSE /\ rpc' = "join"
          /\ UNCHANGED << md_lines, current_list_type, itemIdx, textLine, lastTextTag >>
  /\ UNCHANGED << data, url, document >>
  /\ UNCHANGED extractVars

\* return '\n'.join(md_lines)
RenderJoin ==
  /\ rpc = "join"
  /\ document' = Join(md_lines, << NL >>)
  /\ rpc' = "done"
  /\ UNCHANGED << data, url, md_lines, current_list_type, itemIdx, textLine, lastTextTag >>
  /\ UNCHANGED extractVars

(***************************************************************************)
(* Specifications.                                                         *)
(***************************************************************************)
\* one run of extract_x_content
InitExtract == Init /\ RenderStart(EmptyResult, << >>)

Next ==
  \/ Goto1
  \/ Wait1
  \/ Expand
  \/ ArticleHref
  \/ Goto2
  \/ Scroll
  \/ ScrollTo
  \/ EvaluateBegin
  \/ Walk
  \/ FallbackBegin
  \/ FallbackLine
  \/ EvaluateEnd
  \/ CloseAndReturn
  \/ Except

Spec == InitExtract /\ [][Next]_vars

\* one call of content_to_markdown on a result and a URL
InitRender == Init /\ \E in \in RenderInputs : RenderStart(in[1], in[2])

NextRender ==
  \/ RenderTitle
  \/ RenderMeta
  \/ RenderContent
  \/ RenderJoin

SpecRender == InitRender /\ [][NextRender]_vars

(***************************************************************************)
(* Properties of extract_x_content, checked under Spec.                    *)
(***************************************************************************)
\* positions at which page.evaluate has chosen the container
JsPcs == { "walk", "fallback", "lines", "title", "close" }

\* the structured walk and the fallback pass have both finished
ExtractionDone == pc \in { "title", "close" } \/ returned = "result"

TextIdx(content) == { i \in 1..Len(content) : content[i].type = "text" }
ImageIdx(content) == { i \in 1..Len(content) : content[i].type = "image" }

IsPrefix(a, b) == Len(a) <= Len(b) /\ SubSeq(b, 1, Len(a)) = a

\* C1: after the structured walk and the fallback pass, no two text items of
\* result.content carry the same text.
C1_UniqueTexts ==
  ExtractionDone =>
    \A i, j \in TextIdx(result.content) :
      i # j => result.content[i].content # result.content[j].content

\* C2 as stated: the structured sequence is a prefix of the final content, the
\* fallback pass runs exactly when the structured text length is below 400, and
\* the content equals the structured sequence exactly when that length is 400 or more.
C2_EqualExactlyWhenLong ==
  ExtractionDone =>
    /\ IsPrefix(structured, result.content)
    /\ fallbackRan <=> TotalTextLen(structured) < FallbackThreshold
    /\ result.content = structured <=> TotalTextLen(structured) >= FallbackThreshold

\* C2 amended: the structured sequence is a prefix of the final content, the
\* fallback pass runs exactly when the structured text length is below 400, and
\* the content equals the structured sequence whenever that length is 400 or
\* more (below 400 the pass may still find no new line to append).
C2_PrefixAndThreshold ==
  ExtractionDone =>
    /\ IsPrefix(structured, result.content)
    /\ fallbackRan <=> TotalTextLen(structured) < FallbackThreshold
    /\ TotalTextLen(structured) >= FallbackThreshold => result.content = structured

C2_Witness ==
  /\ pc = "close"
  /\ fallbackRan
  /\ structured # << >>
  /\ Len(result.content) > Len(structured)

\* the host of an absolute URL
HostOf(src) ==
  IF StartsWithAt(src, UrlScheme, 1)
  THEN Split(SubSeq(src, Len(UrlScheme) + 1, Len(src)), "/")[1]
  ELSE << >>

OnMediaDomain(src) == HostOf(src) = MediaDomain

\* C6: every image item's src belongs to the media asset domain and came from an
\* image element whose width and height both exceed 100, and no two image items
\* carry the same src.
C6_ImagesFromMediaDomain ==
  ExtractionDone =>
    /\ \A i \in ImageIdx(result.content) :
         /\ OnMediaDomain(result.content[i].src)
         /\ \E k \in container.lo..container.hi :
              /\ dom.doc[k].tag = "img"
              /\ dom.doc[k].src = result.content[i].src
              /\ EffectiveDim(dom.doc[k].naturalWidth, dom.doc[k].width) > MinDimension
              /\ EffectiveDim(dom.doc[k].naturalHeight, dom.doc[k].height) > MinDimension
    /\ \A i, j \in ImageIdx(result.content) :
         i # j => result.content[i].src # result.content[j].src

\* C8 as stated: once a page.goto has timed out the run neither extracts nor
\* returns a result, no page.goto is called twice, and a run in which no call
\* raised returns a result.
C8_TimeoutAlwaysFails ==
  /\ gotoTimeouts # { } => pc \notin JsPcs /\ returned # "result"
  /\ \A g \in DOMAIN gotoCalls : gotoCalls[g] <= 1
  /\ pc = "done" /\ failedCall = "" => returned = "result"

\* C8 amended: a timeout of the initial page.goto ends the run without a result,
\* without a retry and without extraction; a timeout of the follow-up page.goto
\* is swallowed (no retry, the run goes on with the current view), so a run
\* ends without a result only when a call outside the inner try blocks raised;
\* a run in which no call raised returns a result.
C8_OnlyInitialTimeoutFails ==
  /\ "goto1" \in gotoTimeouts => pc \in { "except", "done" } /\ returned # "result"
  /\ \A g \in DOMAIN gotoCalls : gotoCalls[g] <= 1
  /\ pc = "done" /\ returned # "result" =>
       failedCall \in { "goto1", "wait1", "scroll", "scrollTo", "evaluate", "close" }
  /\ pc = "done" /\ failedCall = "" => returned = "result"

C8_Witness ==
  /\ pc = "done"
  /\ gotoTimeouts = { "goto2" }
  /\ returned = "result"

\* a node the structured walk takes text from
IsTextSource(el) ==
  /\ ~IsSkippable(el)
  /\ el.tag \in SemanticTags \/ (el.tag \in { "div", "span" } /\ el.children = 0)
  /\ Trim(el.innerText) # << >>

\* the first node of the container the walk takes the given text from
SourcesOf(text) ==
  { k \in container.lo..container.hi :
      IsTextSource(dom.doc[k]) /\ Trim(dom.doc[k].innerText) = text }

C10_FirstLongestCandidate ==
  pc \in JsPcs =>
    LET cands == Candidates(dom)
        len(el) == Len(InnerText(dom.doc, el))
    IN  /\ container.kind = "body" <=> cands = << >>
        /\ cands = << >> => container = Body(dom.doc)
        /\ cands # << >> =>
             \E k \in 1..Len(cands) :
               /\ container = cands[k]
               /\ \A j \in 1..Len(cands) : len(cands[j]) <= len(cands[k])
               /\ \A j \in 1..(k - 1) : len(cands[j]) < len(cands[k])

C10_Witness ==
  /\ pc = "walk"
  /\ LET cands == Candidates(dom)
         len(el) == Len(InnerText(dom.doc, el))
     IN  /\ Len(cands) >= 3
         /\ len(cands[1]) < len(cands[2])
         /\ len(cands[2]) = len(cands[3])
         /\ cands[2] # cands[3]
         /\ container = cands[2]

(***************************************************************************)
(* Properties of content_to_markdown, checked under SpecRender.            *)
(***************************************************************************)
DocLines == Split(document, NL)

\* C3: the first line is "# {title}" for a title that is neither empty nor the
\* placeholder, else "# X Article {id}" when the URL holds /status/<digits>, else
\* the bare placeholder line "# X Article".
C3_TitleLine ==
  rpc = "done" =>
    DocLines[1] =
      << "#", " " >> \o
        (IF data.title # << >> /\ data.title # Placeholder THEN data.title
         ELSE IF StatusId(url) # None THEN Placeholder \o << " " >> \o StatusId(url)[1]
         ELSE Placeholder)

\* the non-blank lines between the title line and the horizontal rule
MetaBlock ==
  LET rules == { i \in 2..Len(DocLines) : DocLines[i] = << "-", "-", "-" >> }
      rule == CHOOSE i \in rules : \A j \in rules : i <= j
  IN  NonEmpty(SubSeq(DocLines, 2, rule - 1))

AuthorLine ==
  << "*", "*", "A", "u", "t", "h", "o", "r", ":", "*", "*", " " >> \o data.author
    \o (IF data.handle # << >> THEN << " ", "(" >> \o data.handle \o << ")" >> ELSE << >>)
DateLine == << "*", "*", "D", "a", "t", "e", ":", "*", "*", " " >> \o data.timestamp
SourceLine == << "*", "*", "S", "o", "u", "r", "c", "e", ":", "*", "*", " ", "[" >> \o url \o << "]", "(" >> \o url \o << ")" >>
IsStatsLine(line) == StartsWithAt(line, << "*", "*", "S", "t", "a", "t", "s", ":", "*", "*", " " >>, 1)

\* the block holds the expected lines, in order, followed by a Stats line exactly
\* when stats are expected
BlockIs(expected, withStats) ==
  IF withStats
  THEN /\ Len(MetaBlock) = Len(expected) + 1
       /\ SubSeq(MetaBlock, 1, Len(expected)) = expected
       /\ IsStatsLine(MetaBlock[Len(MetaBlock)])
  ELSE MetaBlock = expected

\* C4 as stated: the metadata block is Author (only if author is non-empty),
\* Date (only if timestamp is non-empty), Source (always), Stats (only if a stat
\* exists), in that order.
C4_AuthorOnlyIfNamed ==
  rpc = "done" =>
    BlockIs((IF data.author # << >> THEN << AuthorLine >> ELSE << >>)
              \o (IF data.timestamp # << >> THEN << DateLine >> ELSE << >>)
              \o << SourceLine >>,
            data.stats # << >>)

\* C4 amended: the metadata block is Author (if author or handle is non-empty;
\* " ({handle})" appended only if handle is non-empty), Date (only if timestamp
\* is non-empty), Source (always), Stats (only if a stat exists), in that order.
C4_AuthorIfNamedOrHandled ==
  rpc = "done" =>
    BlockIs((IF data.author # << >> \/ data.handle # << >> THEN << AuthorLine >> ELSE << >>)
              \o (IF data.timestamp # << >> THEN << DateLine >> ELSE << >>)
              \o << SourceLine >>,
            data.stats # << >>)

C4_Witness ==
  /\ rpc = "done"
  /\ data.author # << >>
  /\ data.handle # << >>
  /\ data.timestamp # << >>
  /\ Len(data.stats) = 2
  /\ Len(MetaBlock) = 4

\* the lines of the entries appended so far
LinesSoFar == Split(Join(md_lines, << NL >>), NL)

\* items of data.content already rendered as text
RenderedIdx == { k \in 1..Len(textLine) : textLine[k] # 0 }

\* C5: directly consecutive list items render as adjacent "- {text}" lines; a
\* non-list text item rendered while the list flag is set clears it and is
\* separated from the last "- {text}" line by a blank line; the flag is set
\* exactly when the text item rendered last was a list item.
C5_ListGrouping ==
  rpc \in { "items", "join", "done" } =>
    /\ current_list_type <=> lastTextTag = "li"
    /\ \A k \in RenderedIdx :
         data.content[k].tag = "li" =>
           LinesSoFar[textLine[k]] = << "-", " " >> \o Trim(data.content[k].content)
    /\ \A k \in RenderedIdx :
         (k + 1 \in RenderedIdx /\ data.content[k].tag = "li"
            /\ data.content[k + 1].tag = "li")
           => textLine[k + 1] = textLine[k] + 1
    /\ \A k, m \in RenderedIdx :
         (/\ k < m
          /\ \A n \in RenderedIdx : ~(k < n /\ n < m)
          /\ data.content[k].tag = "li"
          /\ data.content[m].tag # "li")
           => \E b \in (textLine[k] + 1)..(textLine[m] - 1) : LinesSoFar[b] = << >>

C5_Witness ==
  /\ rpc = "done"
  /\ data.content = << TextItem("li", tA), TextItem("li", tB), TextItem("p", tC) >>
  /\ ~current_list_type

\* C7: for every result and URL, the sparsest included, the document returned by
\* content_to_markdown has a first line that begins with "# " and has the line
\* "**Source:** [{url}]({url})".
C7_AlwaysRenders ==
  rpc = "done" =>
       /\ StartsWithAt(DocLines[1], << "#", " " >>, 1)
       /\ \E i \in 1..Len(DocLines) : DocLines[i] = SourceLine

C7_Witness ==
  /\ rpc = "done"
  /\ data = EmptyResult
  /\ url = urlProfile
  /\ Len(DocLines) > 1

====
